---- MODULE Spec2Model ----
(***************************************************************************)
(* Replication DLQ handler (service/history/replication, dlq_handler.go):  *)
(* ReadMessages, PurgeMessages and MergeMessages over the execution store, *)
(* the remote admin client of the source cluster and the per-cluster task  *)
(* executors.  Every store / remote / executor round trip is one step of a *)
(* call, so that calls can be interleaved.                                 *)
(***************************************************************************)
EXTENDS Integers, Sequences, FiniteSets, TLC

\* ---------------------------------------------------------------- bounds
MaxTaskID == 2          \* task ids of a DLQ are 0..MaxTaskID
MaxPageSize == 3        \* page sizes are 1..MaxPageSize
MaxConcTaskID == 1      \* task ids when calls are interleaved are 0..MaxConcTaskID
MaxStrLen == 4          \* table cells hold strings of 0..MaxStrLen characters
MaxTagLength == 3       \* maxLength tags are 1..MaxTagLength

\* ------------------------------------------------------------- constants
defaultBeginningMessageID == -1

Clusters == {"west", "east"}
TaskIDs == 0..MaxTaskID
PageSizes == 1..MaxPageSize
\* the callers whose calls can be in progress at the same time
Procs == {"p1", "p2"}

\* a page token is a byte slice: empty, or the encoding of the last id read
EmptyToken == <<>>
PageTokens == {EmptyToken, <<0>>}

\* errors, each the value its collaborator (or the handler) returns
errInvalidCluster == "errInvalidCluster"
errStoreRead == "errStoreRead"
errStoreDelete == "errStoreDelete"
errRemote == "errRemote"
errExecute == "errExecute"
NoError == "nil"

VARIABLES
    handler,        \* the dlqHandlerImpl: [state, taskExecutors]
    remoteClients,  \* clusters the client bean has a remote admin client for
    dlq,            \* execution store: dlq[c] = task ids dead-lettered from c
    ackLevel,       \* ackLevel[c] = highest task id ever written to dlq[c]
    call,           \* call[p] = frame of the call in slot p
    render          \* the table cell being formatted: [pc, str, tag, out]

vars == <<handler, remoteClients, dlq, ackLevel, call, render>>

\* ------------------------------------------------------ pure helpers
Max(S) == CHOOSE x \in S : \A y \in S : y <= x

RECURSIVE SortedSeq(_)
\* the ascending sequence of a finite set of integers
SortedSeq(S) ==
    IF S = {} THEN <<>>
    ELSE LET m == Max(S) IN Append(SortedSeq(S \ {m}), m)

Range(s) == {s[k] : k \in 1..Len(s)}

Prefix(s, n) == [k \in 1..(IF n < Len(s) THEN n ELSE Len(s)) |-> s[k]]

\* ------------------------------------------------------ execution store
\* GetReplicationTasksFromDLQ: the entries of the source cluster with
\* ReadLevel < id <= MaxReadLevel that follow the page token, ascending,
\* at most BatchSize of them, and the token to continue from.
GetReplicationTasksFromDLQ(store, req) ==
    LET from == IF req.NextPageToken = EmptyToken THEN req.ReadLevel
                ELSE req.NextPageToken[1]
        all == SortedSeq({t \in store[req.SourceClusterName] :
                            /\ t > req.ReadLevel
                            /\ t > from
                            /\ t <= req.MaxReadLevel})
        page == Prefix(all, req.BatchSize)
    IN  [Tasks |-> page,
         NextPageToken |-> IF Len(all) > Len(page) THEN <<page[Len(page)]>>
                           ELSE EmptyToken]

\* RangeDeleteReplicationTaskFromDLQ: the ids the range delete removes
RangeDeleteReplicationTaskFromDLQ(store, req) ==
    {t \in store[req.SourceClusterName] :
        t > req.ExclusiveBeginTaskID /\ t <= req.InclusiveEndTaskID}

\* ------------------------------------------------------ remote cluster
\* GetDLQReplicationMessages: the hydrated tasks, given by their
\* SourceTaskID.  The source cluster returns a task for any part of the
\* entries asked for, never two for one id.
GetDLQReplicationMessages(taskInfos) ==
    {SortedSeq(S) : S \in SUBSET Range(taskInfos)}

\* a task id that was not asked for
StrayIDs(taskInfos) ==
    LET others == TaskIDs \ Range(taskInfos)
    IN  IF others = {} THEN {} ELSE {Max(others)}

\* answers outside that contract: a task that was not asked for, after
\* the tasks of some of the entries, each of them once or twice
StrayReplicationMessages(taskInfos) ==
    {SortedSeq(S) \o <<t>> : S \in SUBSET Range(taskInfos),
                              t \in StrayIDs(taskInfos)}
    \cup
    {SortedSeq(S) \o <<t>> \o SortedSeq(S) :
         S \in SUBSET Range(taskInfos), t \in StrayIDs(taskInfos)}

\* ------------------------------------------------------ the handler
NilExecutors == [isNil |-> TRUE, keys |-> {}]
ExecutorMaps ==
    {NilExecutors} \cup
    {[isNil |-> FALSE, keys |-> K] : K \in {{}, {"west"}, {"west", "east"}}}

NewDLQHandlerNoCheck(taskExecutors) ==
    [state |-> "ready", taskExecutors |-> taskExecutors.keys]

\* NewDLQHandler: panics on a nil executor map
NewDLQHandler(taskExecutors) ==
    IF taskExecutors.isNil
    THEN [state |-> "panic", taskExecutors |-> {}]
    ELSE [state |-> "ready", taskExecutors |-> taskExecutors.keys]

\* what a caller remembers of the attempt it is repeating
NoPrev ==
    [op |-> "none", err |-> NoError, rawTasks |-> <<>>, tasks |-> <<>>,
     execs |-> <<>>, removed |-> {}, before |-> [c \in Clusters |-> {}]]

\* the frame of a call: arguments, locals, results, and the requests it
\* has sent so far (reads, hydrations, execs, deletes); removed = the ids
\* its range deletes took out of the store, before = the store at entry;
\* ctxDoneAt = the number of executor invocations made when the caller
\* cancelled ctx, the sentinel while ctx is live; atRead / atDelete = the
\* entries of the source cluster in the store when the store served the
\* read / the range delete
IdleCall ==
    [pc |-> "idle", op |-> "none",
     sourceCluster |-> "west", upper |-> 0, pageSize |-> 1,
     pageToken |-> EmptyToken,
     lastMessageID |-> 0, rawTasks |-> <<>>, tasks |-> <<>>,
     token |-> EmptyToken, i |-> 1,
     err |-> NoError, outTasks |-> <<>>, outTaskInfo |-> <<>>,
     outToken |-> EmptyToken,
     reads |-> <<>>, hydrations |-> <<>>, execs |-> <<>>, deletes |-> <<>>,
     removed |-> {}, before |-> [c \in Clusters |-> {}], prev |-> NoPrev,
     ctxDoneAt |-> defaultBeginningMessageID,
     atRead |-> {}, atDelete |-> {}]

\* ctx has not been cancelled: the store and the remote cluster serve the
\* requests that carry it
CtxLive(c) == c.ctxDoneAt = defaultBeginningMessageID

\* a fresh frame for one call
NewCall(op, sourceCluster, lastMessageID, pageSize, pageToken, pc) ==
    [IdleCall EXCEPT !.pc = pc, !.op = op,
                     !.sourceCluster = sourceCluster,
                     !.upper = lastMessageID,
                     !.lastMessageID = lastMessageID,
                     !.pageSize = pageSize, !.pageToken = pageToken,
                     !.before = dlq]

\* return statements
ReturnError(c, e) ==
    [c EXCEPT !.pc = "done", !.err = e, !.outTasks = <<>>,
              !.outTaskInfo = <<>>, !.outToken = EmptyToken]

MergeEntryNoCheck(c) == c

\* MergeMessages, entry: the executor lookup that precedes all I/O
MergeEntry(c) ==
    IF c.sourceCluster \notin handler.taskExecutors
    THEN ReturnError(c, errInvalidCluster)
    ELSE c

ReadRequestBeyondUpper(c) ==
    [SourceClusterName |-> c.sourceCluster,
     ReadLevel |-> defaultBeginningMessageID,
     MaxReadLevel |-> c.lastMessageID + 1,
     BatchSize |-> c.pageSize,
     NextPageToken |-> c.pageToken]

ReadRequestBatchPlusOne(c) ==
    [SourceClusterName |-> c.sourceCluster,
     ReadLevel |-> defaultBeginningMessageID,
     MaxReadLevel |-> c.lastMessageID,
     BatchSize |-> c.pageSize + 1,
     NextPageToken |-> c.pageToken]

\* the request readMessagesWithAckLevel sends to the store
ReadRequest(c) ==
    [SourceClusterName |-> c.sourceCluster,
     ReadLevel |-> defaultBeginningMessageID,
     MaxReadLevel |-> c.lastMessageID,
     BatchSize |-> c.pageSize,
     NextPageToken |-> c.pageToken]

MergeLoopEntrySkipEmptyDelete(c) ==
    IF Len(c.rawTasks) = 0
    THEN [c EXCEPT !.lastMessageID = defaultBeginningMessageID,
                   !.pc = "done", !.outToken = c.token]
    ELSE [c EXCEPT !.lastMessageID = defaultBeginningMessageID,
                   !.i = 1, !.pc = "loop"]

MergeLoopEntryKeepLast(c) ==
    [c EXCEPT !.i = 1,
              !.pc = IF Len(c.rawTasks) = 0 THEN "delete" ELSE "loop"]

\* the loop of MergeMessages starts: lastMessageID is reset to the
\* sentinel; an empty page goes straight to the range delete
MergeLoopEntry(c) ==
    [c EXCEPT !.lastMessageID = defaultBeginningMessageID,
              !.i = 1,
              !.pc = IF Len(c.rawTasks) = 0 THEN "delete" ELSE "loop"]

ReadReturnAsMerge(c, replicationTasks) ==
    MergeLoopEntry([c EXCEPT !.tasks = replicationTasks])

\* readMessagesWithAckLevel returns successfully with the hydrated tasks
ReadReturn(c, replicationTasks) ==
    LET r == [c EXCEPT !.tasks = replicationTasks]
    IN  IF c.op = "Read"
        THEN [r EXCEPT !.pc = "done", !.err = NoError,
                       !.outTasks = replicationTasks,
                       !.outTaskInfo = c.rawTasks,
                       !.outToken = c.token]
        ELSE MergeLoopEntry(r)

AfterStoreReadLazyClient(c, resp) ==
    LET r == [c EXCEPT !.rawTasks = resp.Tasks,
                       !.token = resp.NextPageToken]
    IN  IF Len(resp.Tasks) = 0
        THEN ReadReturn(r, <<>>)
        ELSE IF c.sourceCluster \notin remoteClients
             THEN ReturnError(c, errInvalidCluster)
             ELSE [r EXCEPT !.pc = "hydrate"]

AfterStoreReadSkipHydrate(c, resp) ==
    LET r == [c EXCEPT !.rawTasks = resp.Tasks,
                       !.token = resp.NextPageToken]
    IN  IF c.sourceCluster \notin remoteClients
        THEN ReturnError(c, errInvalidCluster)
        ELSE ReadReturn(r, <<>>)

AfterStoreReadAlwaysHydrate(c, resp) ==
    LET r == [c EXCEPT !.rawTasks = resp.Tasks,
                       !.token = resp.NextPageToken]
    IN  IF c.sourceCluster \notin remoteClients
        THEN ReturnError(c, errInvalidCluster)
        ELSE [r EXCEPT !.pc = "hydrate"]

\* after a successful store read: remote client lookup, taskInfo
\* conversion, and the decision whether to call the remote cluster
AfterStoreRead(c, resp) ==
    LET r == [c EXCEPT !.rawTasks = resp.Tasks,
                       !.token = resp.NextPageToken]
    IN  IF c.sourceCluster \notin remoteClients
        THEN ReturnError(c, errInvalidCluster)
        ELSE IF Len(resp.Tasks) > 0
             THEN [r EXCEPT !.pc = "hydrate"]
             ELSE ReadReturn(r, <<>>)

OnHydrateErrorPartial(c) ==
    [c EXCEPT !.pc = "done", !.err = errRemote, !.outTaskInfo = c.rawTasks,
              !.outToken = c.token]

\* the remote cluster returned an error: return nil, nil, nil, err
OnHydrateError(c) == ReturnError(c, errRemote)

TrackLastMessageIDMatchedOnly(lastMessageID, rawTaskID, matched) ==
    IF matched /\ lastMessageID < rawTaskID THEN rawTaskID ELSE lastMessageID

\* the running maximum of the raw task ids
TrackLastMessageID(lastMessageID, rawTaskID, matched) ==
    IF lastMessageID < rawTaskID THEN rawTaskID ELSE lastMessageID

LoopAdvanceEarlyExit(c, matched) ==
    [c EXCEPT !.lastMessageID =
                  TrackLastMessageID(c.lastMessageID, c.rawTasks[c.i], matched),
              !.i = c.i + 1,
              !.pc = IF c.i + 1 >= Len(c.rawTasks) THEN "delete" ELSE "loop"]

\* end of one loop iteration
LoopAdvance(c, matched) ==
    [c EXCEPT !.lastMessageID =
                  TrackLastMessageID(c.lastMessageID, c.rawTasks[c.i], matched),
              !.i = c.i + 1,
              !.pc = IF c.i + 1 > Len(c.rawTasks) THEN "delete" ELSE "loop"]

OnExecuteErrorSwallowed(c) == LoopAdvance(c, TRUE)

OnExecuteErrorContinue(c) == [LoopAdvance(c, TRUE) EXCEPT !.err = errExecute]

OnExecuteErrorThenPurge(c) == [c EXCEPT !.err = errExecute, !.pc = "delete"]

\* the executor returned an error inside the loop: return nil, err
OnExecuteError(c) == ReturnError(c, errExecute)

DeleteRequestThroughUpper(c) ==
    [SourceClusterName |-> c.sourceCluster,
     ExclusiveBeginTaskID |-> defaultBeginningMessageID,
     InclusiveEndTaskID |-> c.upper]

DeleteRequestFromZero(c) ==
    [SourceClusterName |-> c.sourceCluster,
     ExclusiveBeginTaskID |-> 0,
     InclusiveEndTaskID |-> c.lastMessageID]

DeleteRequestExclusiveEnd(c) ==
    [SourceClusterName |-> c.sourceCluster,
     ExclusiveBeginTaskID |-> defaultBeginningMessageID,
     InclusiveEndTaskID |-> c.lastMessageID - 1]

\* the request of the range delete, for PurgeMessages and MergeMessages
DeleteRequest(c) ==
    [SourceClusterName |-> c.sourceCluster,
     ExclusiveBeginTaskID |-> defaultBeginningMessageID,
     InclusiveEndTaskID |-> c.lastMessageID]

OnDeleteErrorWithToken(c) ==
    [c EXCEPT !.pc = "done", !.err = errStoreDelete,
              !.outToken = IF c.op = "Merge" THEN c.token ELSE EmptyToken]

OnDeleteErrorRetry(c) == [c EXCEPT !.pc = "delete"]

\* the range delete returned an error
OnDeleteError(c) == ReturnError(c, errStoreDelete)

DeleteReturnStaleToken(c) ==
    [c EXCEPT !.pc = "done",
              !.outToken = IF c.op = "Merge" THEN c.pageToken ELSE EmptyToken]

\* the range delete succeeded: PurgeMessages returns nil, MergeMessages
\* returns the token of the page
DeleteReturn(c) ==
    [c EXCEPT !.pc = "done",
              !.outToken = IF c.op = "Merge" THEN c.token ELSE EmptyToken]

\* ------------------------------------------------------ table rendering
\* strings are sequences of characters
Chars == {"a", "/"}
Strings == UNION {[1..n -> Chars] : n \in 0..MaxStrLen}
TagLengths == 1..MaxTagLength

\* a struct tag with or without a maxLength key
NoTag == [ok |-> FALSE, maxLength |-> 0]
Tags == {NoTag} \cup {[ok |-> TRUE, maxLength |-> n] : n \in TagLengths}

\* a function returns a string or panics
Returns(str) == [panic |-> FALSE, value |-> str]
Panics == [panic |-> TRUE, value |-> <<>>]

\* strings.Split(str, "/")
RECURSIVE Split(_)
Split(str) ==
    IF "/" \notin Range(str)
    THEN <<str>>
    ELSE LET k == CHOOSE i \in 1..Len(str) :
                      /\ str[i] = "/"
                      /\ \A j \in 1..(i - 1) : str[j] # "/"
         IN  <<SubSeq(str, 1, k - 1)>> \o Split(SubSeq(str, k + 1, Len(str)))

\* s[low:], which panics when low is out of range
SliceFrom(s, low) ==
    IF low < 0 \/ low > Len(s)
    THEN Panics
    ELSE Returns(SubSeq(s, low + 1, Len(s)))

\* trimString
trimString(str, maxLength) ==
    IF Len(str) < maxLength
    THEN Returns(str)
    ELSE LET items == Split(str)
             lastItem == items[Len(items)]
             tail == SliceFrom(lastItem, Len(lastItem) - maxLength)
         IN  IF Len(str) < maxLength
             THEN Returns(<<".", ".", ".", "/">> \o lastItem)
             ELSE IF tail.panic THEN Panics
                  ELSE Returns(<<".", ".", ".">> \o tail.value)

\* formatString
formatString(str, tag) ==
    IF tag.ok THEN trimString(str, tag.maxLength) ELSE Returns(str)

NoRender == [pc |-> "none", str |-> <<>>, tag |-> NoTag, out |-> Returns(<<>>)]

\* ------------------------------------------------------ initial state
Init ==
    /\ handler \in {NewDLQHandler(te) : te \in ExecutorMaps}
    /\ remoteClients \in {{}, {"west"}, {"west", "east"}}
    /\ remoteClients # {"west"} => handler.taskExecutors = {"west"}
    /\ dlq \in {d \in [Clusters -> SUBSET TaskIDs] : d["east"] \subseteq {0}}
    /\ ackLevel = [c \in Clusters |->
                     Max(dlq[c] \cup {defaultBeginningMessageID})]
    /\ call = [p \in Procs |-> IdleCall]
    /\ render = NoRender

\* ------------------------------------------------------ actions
IdleExclusive(p) ==
    /\ handler.state = "ready"
    /\ call[p].pc = "idle"
    /\ \A q \in Procs \ {p} : call[q].pc \in {"idle", "done"}

Idle(p) == handler.state = "ready" /\ call[p].pc = "idle"

ReadMessages(p, sourceCluster, lastMessageID, pageSize, pageToken) ==
    /\ Idle(p)
    /\ call' = [call EXCEPT ![p] =
                  NewCall("Read", sourceCluster, lastMessageID,
                          pageSize, pageToken, "read")]
    /\ UNCHANGED <<handler, remoteClients, dlq, ackLevel, render>>

PurgeMessagesChecked(p, sourceCluster, lastMessageID) ==
    /\ Idle(p)
    /\ call' = [call EXCEPT ![p] =
                  MergeEntry(NewCall("Purge", sourceCluster, lastMessageID,
                                     1, EmptyToken, "delete"))]
    /\ UNCHANGED <<handler, remoteClients, dlq, ackLevel, render>>

PurgeMessages(p, sourceCluster, lastMessageID) ==
    /\ Idle(p)
    /\ call' = [call EXCEPT ![p] =
                  NewCall("Purge", sourceCluster, lastMessageID,
                          1, EmptyToken, "delete")]
    /\ UNCHANGED <<handler, remoteClients, dlq, ackLevel, render>>

MergeMessages(p, sourceCluster, lastMessageID, pageSize, pageToken) ==
    /\ Idle(p)
    /\ call' = [call EXCEPT ![p] =
                  MergeEntry(NewCall("Merge", sourceCluster, lastMessageID,
                                     pageSize, pageToken, "read"))]
    /\ UNCHANGED <<handler, remoteClients, dlq, ackLevel, render>>

\* the store read of readMessagesWithAckLevel succeeds
StoreReadOK(p) ==
    /\ call[p].pc = "read"
    /\ CtxLive(call[p])
    /\ LET req == ReadRequest(call[p])
           c == [call[p] EXCEPT !.reads = Append(@, req),
                                !.atRead = dlq[req.SourceClusterName]]
       IN  call' = [call EXCEPT ![p] =
                      AfterStoreRead(c, GetReplicationTasksFromDLQ(dlq, req))]
    /\ UNCHANGED <<handler, remoteClients, dlq, ackLevel, render>>

\* the store read fails
StoreReadFail(p) ==
    /\ call[p].pc = "read"
    /\ LET c == [call[p] EXCEPT !.reads = Append(@, ReadRequest(call[p]))]
       IN  call' = [call EXCEPT ![p] = ReturnError(c, errStoreRead)]
    /\ UNCHANGED <<handler, remoteClients, dlq, ackLevel, render>>

\* the remote cluster answers the hydration request
HydrateOK(p) ==
    /\ call[p].pc = "hydrate"
    /\ CtxLive(call[p])
    /\ \E replicationTasks \in GetDLQReplicationMessages(call[p].rawTasks) :
         LET c == [call[p] EXCEPT !.hydrations = Append(@, call[p].rawTasks)]
         IN  call' = [call EXCEPT ![p] = ReadReturn(c, replicationTasks)]
    /\ UNCHANGED <<handler, remoteClients, dlq, ackLevel, render>>

\* the remote cluster answers with a list that holds a task nobody asked
\* for
HydrateStray(p) ==
    /\ call[p].pc = "hydrate"
    /\ CtxLive(call[p])
    /\ \E replicationTasks \in StrayReplicationMessages(call[p].rawTasks) :
         LET c == [call[p] EXCEPT !.hydrations = Append(@, call[p].rawTasks)]
         IN  call' = [call EXCEPT ![p] = ReadReturn(c, replicationTasks)]
    /\ UNCHANGED <<handler, remoteClients, dlq, ackLevel, render>>

\* the hydration request fails
HydrateFail(p) ==
    /\ call[p].pc = "hydrate"
    /\ LET c == [call[p] EXCEPT !.hydrations = Append(@, call[p].rawTasks)]
       IN  call' = [call EXCEPT ![p] = OnHydrateError(c)]
    /\ UNCHANGED <<handler, remoteClients, dlq, ackLevel, render>>

Matched(c) == c.rawTasks[c.i] \in Range(c.tasks)

InvocationByPosition(c, ok) ==
    [executor |-> c.sourceCluster,
     task |-> c.tasks[IF c.i <= Len(c.tasks) THEN c.i ELSE Len(c.tasks)],
     forced |-> TRUE, ok |-> ok,
     present |-> c.rawTasks[c.i] \in dlq[c.sourceCluster]]

InvocationNotForced(c, ok) ==
    [executor |-> c.sourceCluster, task |-> c.rawTasks[c.i],
     forced |-> FALSE, ok |-> ok,
     present |-> c.rawTasks[c.i] \in dlq[c.sourceCluster]]

\* one executor invocation; present records whether the entry was still
\* in the store when the executor was invoked
Invocation(c, ok) ==
    [executor |-> c.sourceCluster, task |-> c.rawTasks[c.i],
     forced |-> TRUE, ok |-> ok,
     present |-> c.rawTasks[c.i] \in dlq[c.sourceCluster]]

\* loop iteration for an entry with a hydrated task, executor succeeds
ExecuteOK(p) ==
    /\ call[p].pc = "loop"
    /\ Matched(call[p])
    /\ LET c == [call[p] EXCEPT !.execs = Append(@, Invocation(call[p], TRUE))]
       IN  call' = [call EXCEPT ![p] = LoopAdvance(c, TRUE)]
    /\ UNCHANGED <<handler, remoteClients, dlq, ackLevel, render>>

ExecuteFailDropsExecutor(p) ==
    /\ call[p].pc = "loop"
    /\ Matched(call[p])
    /\ LET c == [call[p] EXCEPT !.execs = Append(@, Invocation(call[p], FALSE))]
       IN  call' = [call EXCEPT ![p] = OnExecuteError(c)]
    /\ handler' = [handler EXCEPT !.taskExecutors = @ \ {call[p].sourceCluster}]
    /\ UNCHANGED <<remoteClients, dlq, ackLevel, render>>

\* loop iteration for an entry with a hydrated task, executor fails
ExecuteFail(p) ==
    /\ call[p].pc = "loop"
    /\ Matched(call[p])
    /\ LET c == [call[p] EXCEPT !.execs = Append(@, Invocation(call[p], FALSE))]
       IN  call' = [call EXCEPT ![p] = OnExecuteError(c)]
    /\ UNCHANGED <<handler, remoteClients, dlq, ackLevel, render>>

\* loop iteration for an entry without a hydrated task
SkipUnmatched(p) ==
    /\ call[p].pc = "loop"
    /\ ~Matched(call[p])
    /\ call' = [call EXCEPT ![p] = LoopAdvance(call[p], FALSE)]
    /\ UNCHANGED <<handler, remoteClients, dlq, ackLevel, render>>

\* the range delete of PurgeMessages / MergeMessages succeeds
RangeDeleteOK(p) ==
    /\ call[p].pc = "delete"
    /\ CtxLive(call[p])
    /\ LET req == DeleteRequest(call[p])
           gone == RangeDeleteReplicationTaskFromDLQ(dlq, req)
           c == [call[p] EXCEPT !.deletes = Append(@, req),
                                !.removed = @ \cup gone,
                                !.atDelete = dlq[req.SourceClusterName]]
       IN  /\ dlq' = [dlq EXCEPT ![req.SourceClusterName] = @ \ gone]
           /\ call' = [call EXCEPT ![p] = DeleteReturn(c)]
    /\ UNCHANGED <<handler, remoteClients, ackLevel, render>>

\* the range delete fails: the store removes nothing
RangeDeleteFail(p) ==
    /\ call[p].pc = "delete"
    /\ LET c == [call[p] EXCEPT !.deletes = Append(@, DeleteRequest(call[p]))]
       IN  call' = [call EXCEPT ![p] = OnDeleteError(c)]
    /\ UNCHANGED <<handler, remoteClients, dlq, ackLevel, render>>

\* the caller drops the results of a finished call
Return(p) ==
    /\ call[p].pc = "done"
    /\ call' = [call EXCEPT ![p] = IdleCall]
    /\ UNCHANGED <<handler, remoteClients, dlq, ackLevel, render>>

\* the caller issues the finished call again, with the same arguments
Repeat(p) ==
    /\ call[p].pc = "done"
    /\ call[p].prev.op = "none"
    /\ LET c == call[p]
           again == NewCall(c.op, c.sourceCluster, c.upper, c.pageSize,
                            c.pageToken,
                            IF c.op = "Purge" THEN "delete" ELSE "read")
           memo == [op |-> c.op, err |-> c.err, rawTasks |-> c.rawTasks,
                    tasks |-> c.tasks, execs |-> c.execs,
                    removed |-> c.removed, before |-> c.before]
           next == [again EXCEPT !.prev = memo]
       IN  call' = [call EXCEPT ![p] =
                      IF c.op = "Merge" THEN MergeEntry(next) ELSE next]
    /\ UNCHANGED <<handler, remoteClients, dlq, ackLevel, render>>

\* the caller of a MergeMessages loop passes the returned token to the
\* next MergeMessages call, and keeps what the loop has done so far
Continue(p) ==
    /\ call[p].pc = "done"
    /\ call[p].op = "Merge"
    /\ call[p].err = NoError
    /\ call[p].outToken # EmptyToken
    /\ LET c == call[p]
           again == NewCall("Merge", c.sourceCluster, c.upper, c.pageSize,
                            c.outToken, "read")
           memo == [op |-> "Loop", err |-> NoError,
                    rawTasks |-> c.prev.rawTasks \o c.rawTasks,
                    tasks |-> c.prev.tasks \o c.tasks,
                    execs |-> c.prev.execs \o c.execs,
                    removed |-> c.prev.removed \cup c.removed,
                    before |-> IF c.prev.op = "Loop" THEN c.prev.before
                               ELSE c.before]
       IN  call' = [call EXCEPT ![p] =
                      MergeEntry([again EXCEPT !.prev = memo])]
    /\ UNCHANGED <<handler, remoteClients, dlq, ackLevel, render>>

\* the caller cancels the context of its call in progress
Cancel(p) ==
    /\ call[p].pc \in {"read", "hydrate", "loop", "delete"}
    /\ CtxLive(call[p])
    /\ call' = [call EXCEPT ![p].ctxDoneAt = Len(call[p].execs)]
    /\ UNCHANGED <<handler, remoteClients, dlq, ackLevel, render>>

\* the replication pipeline dead-letters a task with a new, larger id
AppendToDLQ(sourceCluster, id) ==
    /\ id > ackLevel[sourceCluster]
    /\ dlq' = [dlq EXCEPT ![sourceCluster] = @ \cup {id}]
    /\ ackLevel' = [ackLevel EXCEPT ![sourceCluster] = id]
    /\ UNCHANGED <<handler, remoteClients, call, render>>

Step(p) ==
    \/ StoreReadOK(p)
    \/ StoreReadFail(p)
    \/ HydrateOK(p)
    \/ HydrateFail(p)
    \/ ExecuteOK(p)
    \/ ExecuteFail(p)
    \/ SkipUnmatched(p)
    \/ RangeDeleteOK(p)
    \/ RangeDeleteFail(p)
    \/ Return(p)

\* one caller: calls are issued one after the other, by caller p1
Next ==
    \/ \E c \in Clusters, last \in TaskIDs, n \in PageSizes, t \in PageTokens :
         ReadMessages("p1", c, last, n, t)
    \/ \E c \in Clusters, last \in TaskIDs : PurgeMessages("p1", c, last)
    \/ \E c \in Clusters, last \in TaskIDs, n \in PageSizes, t \in PageTokens :
         MergeMessages("p1", c, last, n, t)
    \/ Step("p1")

Spec == Init /\ [][Next]_vars

\* one caller that may issue a finished call a second time, on the DLQ of
\* one source cluster that has an executor and a remote admin client
RepeatCluster == "west"

InitRepeat ==
    /\ Init
    /\ handler = NewDLQHandler([isNil |-> FALSE, keys |-> {RepeatCluster}])
    /\ remoteClients = {RepeatCluster}
    /\ dlq["east"] = {}

NextRepeat ==
    \/ \E last \in TaskIDs, n \in PageSizes, t \in PageTokens :
         ReadMessages("p1", RepeatCluster, last, n, t)
    \/ \E last \in TaskIDs : PurgeMessages("p1", RepeatCluster, last)
    \/ \E last \in TaskIDs, n \in PageSizes, t \in PageTokens :
         MergeMessages("p1", RepeatCluster, last, n, t)
    \/ Step("p1")
    \/ Repeat("p1")

SpecRepeat == InitRepeat /\ [][NextRepeat]_vars

\* one caller that drains a range page by page: MergeMessages with an
\* empty token, then with each returned token; no collaborator fails, no
\* other caller, no appends
LoopCluster == "west"

InitLoop ==
    /\ Init
    /\ handler = NewDLQHandler([isNil |-> FALSE, keys |-> {LoopCluster}])
    /\ remoteClients = {LoopCluster}
    /\ dlq["east"] = {}

NextLoop ==
    \/ \E last \in TaskIDs, n \in PageSizes :
         MergeMessages("p1", LoopCluster, last, n, EmptyToken)
    \/ StoreReadOK("p1")
    \/ HydrateOK("p1")
    \/ ExecuteOK("p1")
    \/ SkipUnmatched("p1")
    \/ RangeDeleteOK("p1")
    \/ Continue("p1")

SpecLoop == InitLoop /\ [][NextLoop]_vars /\ WF_vars(NextLoop)

\* one caller of MergeMessages that may cancel the context of its call
CancelCluster == "west"

InitCancel ==
    /\ Init
    /\ handler = NewDLQHandler([isNil |-> FALSE, keys |-> {CancelCluster}])
    /\ remoteClients = {CancelCluster}
    /\ dlq["east"] = {}

NextCancel ==
    \/ \E last \in TaskIDs, n \in PageSizes, t \in PageTokens :
         MergeMessages("p1", CancelCluster, last, n, t)
    \/ Step("p1")
    \/ Cancel("p1")

SpecCancel == InitCancel /\ [][NextCancel]_vars

\* one caller of MergeMessages, and a remote cluster that may answer with
\* tasks it was not asked for
StrayCluster == "west"

InitStray ==
    /\ Init
    /\ handler = NewDLQHandler([isNil |-> FALSE, keys |-> {StrayCluster}])
    /\ remoteClients = {StrayCluster}
    /\ dlq["east"] = {}

NextStray ==
    \/ \E last \in TaskIDs, n \in PageSizes, t \in PageTokens :
         MergeMessages("p1", StrayCluster, last, n, t)
    \/ Step("p1")
    \/ HydrateStray("p1")

SpecStray == InitStray /\ [][NextStray]_vars

\* RenderTable formats one cell: any string, any tag
FormatCell ==
    /\ render.pc = "cell"
    /\ render' = [render EXCEPT !.pc = "formatted",
                                !.out = formatString(render.str, render.tag)]
    /\ UNCHANGED <<handler, remoteClients, dlq, ackLevel, call>>

InitRender ==
    /\ handler = NewDLQHandler([isNil |-> FALSE, keys |-> {}])
    /\ remoteClients = {}
    /\ dlq = [c \in Clusters |-> {}]
    /\ ackLevel = [c \in Clusters |-> defaultBeginningMessageID]
    /\ call = [p \in Procs |-> IdleCall]
    /\ render \in {[pc |-> "cell", str |-> str, tag |-> tag,
                     out |-> Returns(<<>>)] : str \in Strings, tag \in Tags}

NextRender == FormatCell

SpecRender == InitRender /\ [][NextRender]_vars

\* two callers and the replication pipeline, interleaved at every round
\* trip, on the DLQ of one source cluster that has an executor; every
\* call covers the whole queue in one page
ConcCluster == "west"
ConcTaskIDs == 0..MaxConcTaskID

InitConc ==
    /\ Init
    /\ handler = NewDLQHandler([isNil |-> FALSE, keys |-> {ConcCluster}])
    /\ remoteClients \subseteq {ConcCluster}
    /\ dlq["east"] = {}
    /\ dlq[ConcCluster] \subseteq ConcTaskIDs

NextConc ==
    \/ \E p \in Procs :
         ReadMessages(p, ConcCluster, MaxConcTaskID, MaxPageSize, EmptyToken)
    \/ \E p \in Procs : PurgeMessages(p, ConcCluster, MaxConcTaskID)
    \/ \E p \in Procs :
         MergeMessages(p, ConcCluster, MaxConcTaskID, MaxPageSize, EmptyToken)
    \/ \E p \in Procs : Step(p)
    \/ \E id \in ConcTaskIDs : AppendToDLQ(ConcCluster, id)

SpecConc == InitConc /\ [][NextConc]_vars

\* ------------------------------------------------------ properties
\* the entries of the page that have a hydrated task, in page order
MatchedEntries(c) ==
    LET HasTask(t) == t \in Range(c.tasks)
    IN  SelectSeq(c.rawTasks, HasTask)

\* the task ids the executor was invoked for, in invocation order
ExecutedIDs(execs) == [k \in 1..Len(execs) |-> execs[k].task]

\* the largest task id of the page, the sentinel for an empty page
PageMax(rawTasks) ==
    IF rawTasks = <<>> THEN defaultBeginningMessageID
    ELSE Max(Range(rawTasks))

\* store content d without the ids of cluster cl in (sentinel, end]
WithoutRange(d, cl, end) ==
    [d EXCEPT ![cl] = {t \in @ : ~(t > defaultBeginningMessageID /\ t <= end)}]

\* every page a read of (sentinel, last] of cluster cl can return now
PagesNow(cl, last) ==
    {GetReplicationTasksFromDLQ(dlq,
        [SourceClusterName |-> cl, ReadLevel |-> defaultBeginningMessageID,
         MaxReadLevel |-> last, BatchSize |-> n, NextPageToken |-> t]).Tasks :
     n \in PageSizes, t \in PageTokens}

NoIO(c) ==
    /\ c.reads = <<>>
    /\ c.hydrations = <<>>
    /\ c.execs = <<>>
    /\ c.deletes = <<>>
    /\ c.removed = {}

\* C1: when the executor fails on the k-th matched entry of the page of a
\* MergeMessages call, the executor was invoked successfully for the k-1
\* matched entries before it, in page order, and for no entry after it;
\* the call returns the executor's error, issues no range delete, and the
\* DLQ is what it was when the call started.
C1_ExecutorFailureAborts ==
    \A p \in Procs :
        LET c == call[p]
            m == MatchedEntries(c)
            k == Len(c.execs)
        IN  c.op = "Merge" =>
              /\ (\E j \in 1..k : ~c.execs[j].ok) =>
                    (c.pc = "done" /\ c.err = errExecute)
              /\ (c.pc = "done" /\ c.err = errExecute) =>
                    /\ k >= 1
                    /\ k <= Len(m)
                    /\ \A j \in 1..k :
                         /\ c.execs[j].task = m[j]
                         /\ c.execs[j].ok = (j < k)
                    /\ c.deletes = <<>>
                    /\ c.removed = {}
                    /\ c.outToken = EmptyToken
                    /\ dlq = c.before

C1_Witness ==
    \E p \in Procs :
        /\ call[p].op = "Merge"
        /\ call[p].pc = "done"
        /\ call[p].err = errExecute
        /\ Len(call[p].execs) >= 2
        /\ call[p].i < Len(call[p].rawTasks)

\* C2: a MergeMessages call whose store read, hydration and executor calls
\* all succeed invokes the executor of the source cluster exactly once,
\* forced, for each page entry that has a hydrated task, in page order,
\* and for no other entry; it then issues exactly one range delete, from
\* the beginning sentinel through the largest task id of the whole page.
C2_MergeExecutesMatchedAndPurgesPage ==
    \A p \in Procs :
        LET c == call[p]
        IN  (c.op = "Merge" /\ c.pc = "done"
                /\ c.err \in {NoError, errStoreDelete}) =>
              /\ ExecutedIDs(c.execs) = MatchedEntries(c)
              /\ \A j \in 1..Len(c.execs) :
                   /\ c.execs[j].forced
                   /\ c.execs[j].ok
                   /\ c.execs[j].executor = c.sourceCluster
              /\ c.deletes =
                   << [SourceClusterName |-> c.sourceCluster,
                       ExclusiveBeginTaskID |-> defaultBeginningMessageID,
                       InclusiveEndTaskID |-> PageMax(c.rawTasks)] >>

C2_Witness ==
    \E p \in Procs :
        /\ call[p].op = "Merge"
        /\ call[p].pc = "done"
        /\ call[p].err = NoError
        /\ call[p].rawTasks = <<0, 1, 2>>
        /\ ExecutedIDs(call[p].execs) = <<0, 2>>
        /\ call[p].deletes[1].InclusiveEndTaskID = 2

\* C3: after a successful MergeMessages call the DLQ of the source cluster
\* holds no entry up to the largest task id of the page the call read,
\* hydrated or not, and no read of the same range returns such an entry.
C3_MergePurgesThroughPageMax ==
    \A p \in Procs :
        LET c == call[p]
        IN  (c.op = "Merge" /\ c.pc = "done" /\ c.err = NoError) =>
              /\ \A t \in dlq[c.sourceCluster] : t > PageMax(c.rawTasks)
              /\ \A page \in PagesNow(c.sourceCluster, c.upper) :
                   \A t \in Range(page) : t > PageMax(c.rawTasks)

C3_Witness ==
    \E p \in Procs :
        /\ call[p].op = "Merge"
        /\ call[p].pc = "done"
        /\ call[p].err = NoError
        /\ \E t \in Range(call[p].rawTasks) :
             t \notin Range(call[p].tasks) /\ t \in call[p].removed
        /\ dlq[call[p].sourceCluster] # {}

\* C4: MergeMessages for a source cluster without a registered executor
\* returns InvalidCluster having issued no store read, hydration call,
\* executor call or range delete, and leaves the DLQ unchanged.
C4_MergeWithoutExecutorFailsFast ==
    \A p \in Procs :
        LET c == call[p]
        IN  (c.op = "Merge" /\ c.sourceCluster \notin handler.taskExecutors) =>
              /\ c.pc = "done"
              /\ c.err = errInvalidCluster
              /\ c.outToken = EmptyToken
              /\ NoIO(c)
              /\ dlq = c.before

C4_Witness ==
    \E p \in Procs :
        /\ call[p].op = "Merge"
        /\ call[p].pc = "done"
        /\ call[p].sourceCluster \notin handler.taskExecutors
        /\ call[p].sourceCluster \in remoteClients
        /\ dlq[call[p].sourceCluster] # {}

\* C5: ReadMessages for a source cluster without a remote admin client
\* returns InvalidCluster, and no store read has been issued by then.
C5_ReadInvalidClusterWithoutStoreIO ==
    \A p \in Procs :
        LET c == call[p]
        IN  (c.op = "Read" /\ c.pc = "done"
                /\ c.sourceCluster \notin remoteClients) =>
              /\ c.err = errInvalidCluster
              /\ c.reads = <<>>

\* C6: whenever MergeMessages returns an error, the DLQ is what it was
\* when the call started; when the error is the store read's or the
\* remote cluster's, no executor has been invoked.
C6_MergeErrorLeavesDLQ ==
    \A p \in Procs :
        LET c == call[p]
        IN  (c.op = "Merge" /\ c.pc = "done" /\ c.err # NoError) =>
              /\ dlq = c.before
              /\ c.removed = {}
              /\ c.err \in {errStoreRead, errRemote} => c.execs = <<>>

C6_Witness ==
    \E p \in Procs :
        /\ call[p].op = "Merge"
        /\ call[p].pc = "done"
        /\ call[p].err = errStoreDelete
        /\ Len(call[p].execs) >= 2
        /\ dlq[call[p].sourceCluster] # {}

\* C7: a MergeMessages call repeated with the same arguments after an
\* executor error reads the same page again and invokes the executor from
\* the first matched entry on, so the entries executed before the failure
\* are executed again; when the repetition succeeds with the same
\* hydration result, the tasks executed at least once are the matched
\* entries of the page and the DLQ is the one a single successful merge
\* of that page leaves.
C7_RetryAfterExecutorError ==
    \A p \in Procs :
        LET c == call[p]
            m == MatchedEntries(c)
        IN  (c.op = "Merge" /\ c.prev.op = "Merge"
                /\ c.prev.err = errExecute) =>
              /\ (c.pc # "read" /\ c.err # errStoreRead) =>
                    c.rawTasks = c.prev.rawTasks
              /\ Len(c.execs) <= Len(m)
              /\ \A j \in 1..Len(c.execs) : c.execs[j].task = m[j]
              /\ (c.pc = "done" /\ c.err = NoError
                     /\ c.tasks = c.prev.tasks) =>
                    /\ \A j \in 1..Len(c.prev.execs) :
                         c.execs[j].task = c.prev.execs[j].task
                    /\ Range(ExecutedIDs(c.prev.execs))
                         \cup Range(ExecutedIDs(c.execs))
                         = Range(MatchedEntries(c.prev))
                    /\ dlq = WithoutRange(c.prev.before, c.sourceCluster,
                                          PageMax(c.prev.rawTasks))

C7_Witness ==
    \E p \in Procs :
        /\ call[p].op = "Merge"
        /\ call[p].prev.err = errExecute
        /\ Len(call[p].prev.execs) >= 2
        /\ call[p].pc = "done"
        /\ call[p].err = NoError
        /\ call[p].tasks = call[p].prev.tasks
        /\ Len(call[p].execs) < Len(call[p].rawTasks)

\* C8: a successful PurgeMessages(cluster, upper) removes from the DLQ
\* exactly the entries of that cluster with sentinel < id <= upper, with
\* one range delete and no store read, hydration or executor call.
C8_PurgeRemovesExactlyTheRange ==
    \A p \in Procs :
        LET c == call[p]
        IN  c.op = "Purge" =>
              /\ c.reads = <<>>
              /\ c.hydrations = <<>>
              /\ c.execs = <<>>
              /\ (c.pc = "done" /\ c.err = NoError) =>
                    /\ Len(c.deletes) = 1
                    /\ dlq = WithoutRange(c.before, c.sourceCluster, c.upper)

C8_Witness ==
    \E p \in Procs :
        /\ call[p].op = "Purge"
        /\ call[p].pc = "done"
        /\ call[p].err = NoError
        /\ call[p].removed # {}
        /\ dlq[call[p].sourceCluster] # {}

\* C9: a second successful PurgeMessages with the same cluster and upper
\* bound leaves the DLQ as the first one left it, and a read of that
\* range then returns no entry, whether or not the first purge removed any.
C9_PurgeIdempotent ==
    \A p \in Procs :
        LET c == call[p]
        IN  (c.op = "Purge" /\ c.prev.op = "Purge" /\ c.prev.err = NoError
                /\ c.pc = "done" /\ c.err = NoError) =>
              /\ dlq = c.before
              /\ c.removed = {}
              /\ \A page \in PagesNow(c.sourceCluster, c.upper) : page = <<>>

C9_Witness ==
    \E p \in Procs :
        /\ call[p].op = "Purge"
        /\ call[p].prev.op = "Purge"
        /\ call[p].prev.err = NoError
        /\ call[p].prev.removed # {}
        /\ call[p].pc = "done"
        /\ call[p].err = NoError
        /\ dlq[call[p].sourceCluster] # {}

\* C10: no step of a ReadMessages call, whatever its outcome and whatever
\* other calls are in progress, changes the DLQ, issues a range delete or
\* invokes an executor.
C10_ReadIsReadOnly ==
    [][\A p \in Procs :
          (call'[p] # call[p] /\ call'[p].op = "Read") =>
            /\ dlq' = dlq
            /\ call'[p].deletes = <<>>
            /\ call'[p].execs = <<>>
            /\ call'[p].removed = {}]_vars

C10_Witness ==
    \A p \in Procs :
        /\ call[p].op = "Read"
        /\ call[p].pc = "hydrate"
        /\ call[p].rawTasks # <<>>

\* C11: when the hydration call of ReadMessages fails, the call returns
\* the remote cluster's error with no hydrated task, no lightweight entry
\* and no page token, although its store read had returned a page.
C11_ReadAllOrNothing ==
    \A p \in Procs :
        LET c == call[p]
        IN  (c.op = "Read" /\ c.pc = "done" /\ c.hydrations # <<>>
                /\ c.tasks = <<>> /\ c.err # NoError) =>
              /\ c.err = errRemote
              /\ c.outTasks = <<>>
              /\ c.outTaskInfo = <<>>
              /\ c.outToken = EmptyToken
              /\ Len(c.reads) = 1
              /\ c.rawTasks # <<>>

C11_Witness ==
    \E p \in Procs :
        /\ call[p].op = "Read"
        /\ call[p].pc = "done"
        /\ call[p].err = errRemote
        /\ Len(call[p].rawTasks) >= 2
        /\ call[p].token # EmptyToken

\* C12: the read-and-hydrate step of ReadMessages and MergeMessages calls
\* the remote cluster once, with all entries of the page, when the page is
\* not empty, and not at all when it is empty; with an empty page
\* ReadMessages succeeds with no task, no entry and the store's token.
C12_HydrateOncePerNonEmptyPage ==
    \A p \in Procs :
        LET c == call[p]
            hydrated == \/ c.pc \in {"loop", "delete"}
                        \/ /\ c.pc = "done"
                           /\ c.op \in {"Read", "Merge"}
                           /\ c.err \notin {errInvalidCluster, errStoreRead}
        IN  /\ c.pc = "hydrate" => (c.hydrations = <<>> /\ c.rawTasks # <<>>)
            /\ (hydrated /\ c.op # "Purge") =>
                  c.hydrations = IF c.rawTasks = <<>> THEN <<>>
                                 ELSE <<c.rawTasks>>
            /\ (c.op = "Read" /\ Len(c.reads) = 1 /\ c.rawTasks = <<>>
                    /\ c.pc = "done" /\ c.err # errStoreRead
                    /\ c.sourceCluster \in remoteClients) =>
                  /\ c.err = NoError
                  /\ c.outTasks = <<>>
                  /\ c.outTaskInfo = <<>>
                  /\ c.outToken = c.token

C12_Witness ==
    \E p \in Procs :
        /\ call[p].op = "Read"
        /\ call[p].pc = "done"
        /\ call[p].err = NoError
        /\ Len(call[p].reads) = 1
        /\ call[p].rawTasks = <<>>
        /\ call[p].hydrations = <<>>
        /\ dlq[call[p].sourceCluster] # {}

\* C13: a successful ReadMessages with page size n returns at most n
\* lightweight entries and no more hydrated tasks than entries.
C13_ReadPageBounds ==
    \A p \in Procs :
        LET c == call[p]
        IN  (c.op = "Read" /\ c.pc = "done" /\ c.err = NoError) =>
              /\ Len(c.outTaskInfo) <= c.pageSize
              /\ Len(c.outTasks) <= Len(c.outTaskInfo)

C13_Witness ==
    \E p \in Procs :
        /\ call[p].op = "Read"
        /\ call[p].pc = "done"
        /\ call[p].err = NoError
        /\ Len(call[p].outTaskInfo) = call[p].pageSize
        /\ call[p].outToken # EmptyToken
        /\ Len(call[p].outTasks) < Len(call[p].outTaskInfo)
        /\ call[p].outTasks # <<>>

\* C14 (as stated): NewDLQHandler fails fast for a nil and for an empty
\* executor mapping alike, so no handler is ever built without executors.
C14_ConstructorRejectsNilAndEmpty ==
    \A te \in ExecutorMaps :
        (handler = NewDLQHandler(te) /\ te.keys = {}) =>
            handler.state = "panic"

\* C14 (amended): NewDLQHandler fails fast exactly when the executor
\* mapping is nil, and then no call is ever served; an empty mapping is
\* accepted, and the handler built from it fails every MergeMessages with
\* InvalidCluster before any I/O.
C14_ConstructorRejectsNilOnly ==
    /\ \A te \in ExecutorMaps :
          handler = NewDLQHandler(te) =>
              (handler.state = "panic" <=> te.isNil)
    /\ handler.state = "panic" => \A p \in Procs : call[p] = IdleCall
    /\ (handler.state = "ready" /\ handler.taskExecutors = {}) =>
          \A p \in Procs :
              call[p].op = "Merge" =>
                  /\ call[p].pc = "done"
                  /\ call[p].err = errInvalidCluster
                  /\ NoIO(call[p])

C14_Witness ==
    /\ handler = NewDLQHandler([isNil |-> FALSE, keys |-> {}])
    /\ handler.state = "ready"
    /\ \E p \in Procs :
          /\ call[p].op = "Merge"
          /\ call[p].err = errInvalidCluster
          /\ dlq[call[p].sourceCluster] # {}

\* what a MergeMessages loop has read, hydrated, executed and removed,
\* the call in progress included, and the store it started on
LoopRaw(c) == c.prev.rawTasks \o c.rawTasks
LoopTasks(c) == c.prev.tasks \o c.tasks
LoopExecs(c) == c.prev.execs \o c.execs
LoopRemoved(c) == c.prev.removed \cup c.removed
LoopBefore(c) == IF c.prev.op = "Loop" THEN c.prev.before ELSE c.before
LoopDone(c) ==
    /\ c.op = "Merge"
    /\ c.pc = "done"
    /\ c.err = NoError
    /\ c.outToken = EmptyToken

LoopSafe(c) ==
    /\ \A t \in LoopRemoved(c) :
          /\ t \in Range(LoopRaw(c))
          /\ t \in Range(LoopTasks(c)) =>
                \E k \in 1..Len(LoopExecs(c)) :
                    LoopExecs(c)[k].task = t /\ LoopExecs(c)[k].ok
    /\ LoopDone(c) =>
          LET inRange == {t \in LoopBefore(c)[c.sourceCluster] :
                             t > defaultBeginningMessageID /\ t <= c.upper}
          IN  /\ dlq[c.sourceCluster] = LoopBefore(c)[c.sourceCluster] \ inRange
              /\ LoopRemoved(c) = inRange

\* C15: a caller that starts MergeMessages with an empty token and calls
\* it again with each returned token, with no failure and nothing else
\* touching the queue, comes to an empty token; every entry the loop
\* removed was read by it and, if the remote cluster returned its task,
\* executed first; at the end the queue holds no entry of the range.
C15_MergeLoopDrainsRange ==
    /\ [](\A p \in Procs : call[p].op = "Merge" => LoopSafe(call[p]))
    /\ <>LoopDone(call["p1"])

C15_Witness ==
    LET c == call["p1"]
    IN  /\ LoopDone(c)
        /\ c.prev.op = "Loop"
        /\ Len(c.prev.execs) >= 1
        /\ Len(c.execs) >= 1
        /\ Len(LoopTasks(c)) < Len(LoopRaw(c))
        /\ Len(LoopRaw(c)) > c.pageSize

\* C16: once the caller has cancelled the context of a MergeMessages call,
\* the call invokes the executor for no further entry, removes nothing
\* from the store, and returns an error.
C16_CancelStopsSideEffects ==
    \A p \in Procs :
        LET c == call[p]
        IN  (c.op = "Merge" /\ ~CtxLive(c)) =>
              /\ Len(c.execs) = c.ctxDoneAt
              /\ c.removed = {}
              /\ c.pc = "done" => c.err # NoError

\* C17: the handler holds no lock between concurrent MergeMessages calls
\* on one source cluster: whatever the other call is doing, a call can be
\* started, its executor can be invoked for its next matched entry, and its
\* range delete can be issued.  (C17_Witness is an execution in which both
\* calls run the executor on the same task, the second one after the first
\* call's purge removed the entry, and the second call's purge removes
\* nothing.)
C17_NoMutualExclusion ==
    \A p \in Procs :
        /\ call[p].pc = "idle" =>
              ENABLED MergeMessages(p, ConcCluster, MaxConcTaskID,
                                    MaxPageSize, EmptyToken)
        /\ (call[p].pc = "loop" /\ Matched(call[p])) => ENABLED ExecuteOK(p)
        /\ call[p].pc = "delete" => ENABLED RangeDeleteOK(p)

C17_Witness ==
    \E p, q \in Procs :
        /\ p # q
        /\ call[p].op = "Merge" /\ call[q].op = "Merge"
        /\ call[p].pc = "done" /\ call[q].pc = "done"
        /\ call[p].err = NoError /\ call[q].err = NoError
        /\ \E j \in 1..Len(call[p].execs), k \in 1..Len(call[q].execs) :
              /\ call[p].execs[j].task = call[q].execs[k].task
              /\ call[p].execs[j].present
              /\ ~call[q].execs[k].present
              /\ call[p].execs[j].task \in call[p].removed
        /\ call[q].deletes # <<>>
        /\ call[q].removed = {}

\* C18: within one MergeMessages call the executor is invoked in the
\* ascending task-id order of the entries of the page, and the range
\* delete ends at the largest task id of that page: never at the id of a
\* later page or of an entry the call did not read.
C18_MergeOrderAndPurgeEnd ==
    \A p \in Procs :
        LET c == call[p]
        IN  c.op = "Merge" =>
              /\ \A j \in 1..Len(c.execs) :
                    /\ c.execs[j].task \in Range(c.rawTasks)
                    /\ \A k \in 1..Len(c.execs) :
                          j < k => c.execs[j].task < c.execs[k].task
              /\ \A j \in 1..Len(c.deletes) :
                    /\ c.deletes[j].InclusiveEndTaskID = PageMax(c.rawTasks)
                    /\ c.deletes[j].InclusiveEndTaskID
                          \in Range(c.rawTasks) \cup {defaultBeginningMessageID}
              /\ \A t \in c.removed : t <= PageMax(c.rawTasks)

C18_Witness ==
    \E p \in Procs :
        LET c == call[p]
        IN  /\ c.op = "Merge"
            /\ c.pc = "done"
            /\ c.err = NoError
            /\ Len(c.execs) >= 2
            /\ c.outToken # EmptyToken
            /\ c.deletes[1].InclusiveEndTaskID < c.upper
            /\ \E t \in dlq[c.sourceCluster] : t <= c.upper

\* C19: the collaborator calls of one MergeMessages call are made one at
\* a time and in order: the store read, then the hydration, then the
\* executor invocations one after the other, then the range delete, which
\* starts only after the executor returned successfully for the last
\* matched entry.
C19_MergeStepsSequential ==
    [][\A p \in Procs :
          LET c == call[p]
              d == call'[p]
              Grows(h) == IF Len(d[h]) > Len(c[h]) THEN 1 ELSE 0
          IN  (c.op = "Merge" /\ d.op = "Merge") =>
                /\ Grows("reads") + Grows("hydrations") + Grows("execs")
                       + Grows("deletes") <= 1
                /\ Grows("reads") = 1 =>
                      /\ c.reads = <<>> /\ c.hydrations = <<>>
                      /\ c.execs = <<>> /\ c.deletes = <<>>
                /\ Grows("hydrations") = 1 =>
                      /\ Len(c.reads) = 1 /\ c.hydrations = <<>>
                      /\ c.execs = <<>> /\ c.deletes = <<>>
                /\ Grows("execs") = 1 =>
                      /\ Len(d.execs) = Len(c.execs) + 1
                      /\ Len(c.reads) = 1 /\ Len(c.hydrations) = 1
                      /\ c.deletes = <<>>
                      /\ \A j \in 1..Len(c.execs) : c.execs[j].ok
                /\ Grows("deletes") = 1 =>
                      /\ Len(c.reads) = 1 /\ c.deletes = <<>>
                      /\ c.hydrations = IF c.rawTasks = <<>> THEN <<>>
                                        ELSE <<c.rawTasks>>
                      /\ ExecutedIDs(c.execs) = MatchedEntries(c)
                      /\ \A j \in 1..Len(c.execs) : c.execs[j].ok]_vars

C19_Witness ==
    \E p \in Procs :
        LET c == call[p]
        IN  /\ c.op = "Merge"
            /\ c.pc = "done"
            /\ Len(c.reads) = 1
            /\ Len(c.hydrations) = 1
            /\ Len(c.execs) >= 2
            /\ Len(c.deletes) = 1
            /\ Len(c.execs) < Len(c.rawTasks)

\* C20: the handler never retries: one call sends at most one store read,
\* one hydration request and one range delete, and invokes the executor at
\* most once per entry of the page; the first collaborator failure ends
\* the call, which returns that collaborator's error as it is.
C20_NoInternalRetry ==
    \A p \in Procs :
        LET c == call[p]
        IN  /\ Len(c.reads) <= 1
            /\ Len(c.hydrations) <= 1
            /\ Len(c.deletes) <= 1
            /\ \A j, k \in 1..Len(c.execs) :
                  c.execs[j].task = c.execs[k].task => j = k
            /\ \A j \in 1..Len(c.execs) :
                  ~c.execs[j].ok =>
                      /\ j = Len(c.execs)
                      /\ c.pc = "done"
                      /\ c.err = errExecute
            /\ c.err # NoError => c.pc = "done"
            /\ c.err = errStoreRead =>
                  /\ Len(c.reads) = 1
                  /\ c.hydrations = <<>> /\ c.execs = <<>> /\ c.deletes = <<>>
            /\ c.err = errRemote =>
                  /\ Len(c.hydrations) = 1
                  /\ c.execs = <<>> /\ c.deletes = <<>>
            /\ c.err = errExecute =>
                  /\ c.execs # <<>>
                  /\ ~c.execs[Len(c.execs)].ok
                  /\ c.deletes = <<>>
            /\ c.err = errStoreDelete =>
                  /\ Len(c.deletes) = 1
                  /\ c.removed = {}

C20_Witness ==
    \E p \in Procs :
        LET c == call[p]
        IN  /\ c.op = "Merge"
            /\ c.pc = "done"
            /\ c.err = errStoreDelete
            /\ Len(c.execs) >= 2
            /\ Len(c.deletes) = 1

\* C21: no step of a ReadMessages, PurgeMessages or MergeMessages call,
\* whatever its outcome, changes the executor table or the remote client
\* table, so the clusters that get InvalidCluster stay the same.
C21_LookupTablesFixed ==
    [][/\ handler' = handler
       /\ remoteClients' = remoteClients
       /\ Clusters \ handler'.taskExecutors = Clusters \ handler.taskExecutors
       /\ Clusters \ remoteClients' = Clusters \ remoteClients]_vars

C21_Witness ==
    \E p \in Procs :
        /\ call[p].op = "Merge"
        /\ call[p].pc = "done"
        /\ call[p].err = errExecute
        /\ Len(call[p].execs) >= 2
        /\ handler.taskExecutors = {"west", "east"}
        /\ remoteClients = {"west"}

\* C22: every entry a successful MergeMessages call removes from the DLQ
\* was an entry of the page this call read, for every page token.
C22_MergeRemovesOnlyItsPage ==
    \A p \in Procs :
        LET c == call[p]
        IN  (c.op = "Merge" /\ c.pc = "done" /\ c.err = NoError) =>
              c.removed \subseteq Range(c.rawTasks)

\* C23: MergeMessages never deletes an entry above the caller's inclusive
\* upper bound, for any page size and page token: its range delete ends at
\* or below that bound.
C23_PurgeWithinUpperBound ==
    \A p \in Procs :
        LET c == call[p]
        IN  c.op = "Merge" =>
              /\ \A t \in Range(c.rawTasks) :
                    t > defaultBeginningMessageID /\ t <= c.upper
              /\ c.pc = "delete" => c.lastMessageID <= c.upper
              /\ \A j \in 1..Len(c.deletes) :
                    c.deletes[j].InclusiveEndTaskID <= c.upper
              /\ \A t \in c.removed : t <= c.upper
              /\ \A t \in c.before[c.sourceCluster] :
                    t > c.upper => t \in dlq[c.sourceCluster]

C23_Witness ==
    \E p \in Procs :
        LET c == call[p]
        IN  /\ c.op = "Merge"
            /\ c.pc = "done"
            /\ c.err = NoError
            /\ c.upper \in c.removed
            /\ c.pageToken # EmptyToken
            /\ \E t \in dlq[c.sourceCluster] : t > c.upper

\* C24: an entry the replication pipeline appends to the DLQ after a
\* MergeMessages call performed its store read and before the call's
\* range delete is not removed by that call: it is in the DLQ when the
\* call returns.
C24_MergeKeepsLaterAppends ==
    \A p \in Procs :
        LET c == call[p]
        IN  (c.op = "Merge" /\ c.deletes # <<>> /\ c.pc = "done"
                /\ c.err = NoError) =>
              /\ c.removed \subseteq c.atRead
              /\ \A t \in c.atDelete \ c.atRead :
                    /\ t > PageMax(c.rawTasks)
                    /\ t \notin c.removed
                    /\ t \in c.atDelete \ c.removed

C24_Witness ==
    \E p \in Procs :
        LET c == call[p]
        IN  /\ c.op = "Merge"
            /\ c.pc = "done"
            /\ c.err = NoError
            /\ c.removed # {}
            /\ c.execs # <<>>
            /\ \E t \in c.atDelete \ c.atRead :
                  t <= c.upper /\ t \in dlq[c.sourceCluster]

\* C25: MergeMessages for a source cluster that has an executor but no
\* remote admin client returns InvalidCluster after the store read, with
\* no hydration request, no executor invocation and no range delete, and
\* the DLQ unchanged; so it does when the page read is empty.
C25_MergeWithoutRemoteClient ==
    \A p \in Procs :
        LET c == call[p]
        IN  (/\ c.op = "Merge"
             /\ c.sourceCluster \in handler.taskExecutors
             /\ c.sourceCluster \notin remoteClients) =>
              /\ c.pc \in {"read", "done"}
              /\ c.hydrations = <<>>
              /\ c.execs = <<>>
              /\ c.deletes = <<>>
              /\ c.removed = {}
              /\ dlq = c.before
              /\ c.pc = "read" => c.reads = <<>>
              /\ c.pc = "done" =>
                    /\ Len(c.reads) = 1
                    /\ c.err \in {errInvalidCluster, errStoreRead}
                    /\ c.outToken = EmptyToken

C25_Witness ==
    \E p \in Procs :
        LET c == call[p]
        IN  /\ c.op = "Merge"
            /\ c.sourceCluster \in handler.taskExecutors
            /\ c.sourceCluster \notin remoteClients
            /\ c.pc = "done"
            /\ c.err = errInvalidCluster
            /\ Len(c.reads) = 1
            /\ Len(GetReplicationTasksFromDLQ(dlq, c.reads[1]).Tasks) >= 2

\* C26: whatever list of tasks the remote cluster returns, MergeMessages
\* never passes to the executor a hydrated task whose SourceTaskID is the
\* task id of no entry of the page, and it invokes the executor at most
\* once per entry of the page.
C26_StrayTaskNeverExecuted ==
    \A p \in Procs :
        LET c == call[p]
        IN  c.op = "Merge" =>
              /\ \A j \in 1..Len(c.execs) :
                    /\ c.execs[j].task \in Range(c.rawTasks)
                    /\ c.execs[j].task \in Range(c.tasks)
              /\ \A t \in Range(c.tasks) \ Range(c.rawTasks) :
                    \A j \in 1..Len(c.execs) : c.execs[j].task # t
              /\ Len(c.execs) <= Len(c.rawTasks)
              /\ c.pc = "loop" => Len(c.execs) <= c.i - 1

C26_Witness ==
    \E p \in Procs :
        LET c == call[p]
        IN  /\ c.op = "Merge"
            /\ c.pc = "done"
            /\ c.err = NoError
            /\ Range(c.tasks) \ Range(c.rawTasks) # {}
            /\ Len(c.tasks) > Len(c.rawTasks)
            /\ Len(c.execs) = Len(c.rawTasks)
            /\ Len(c.execs) >= 2

\* C27: when the page read by MergeMessages is empty, the call makes no
\* hydration request and no executor invocation, still issues a range
\* delete, whose inclusive end is the sentinel -1 and which removes
\* nothing, and returns the store's page token; at the range delete the
\* tracked maximum is the sentinel exactly when the page is empty.
C27_MergeEmptyPage ==
    \A p \in Procs :
        LET c == call[p]
            pastRead == \/ c.pc \in {"hydrate", "loop", "delete"}
                        \/ /\ c.pc = "done"
                           /\ c.err \notin {errInvalidCluster, errStoreRead}
            atPurge == \/ c.pc = "delete"
                       \/ c.pc = "done" /\ c.err \in {NoError, errStoreDelete}
        IN  c.op = "Merge" =>
              /\ (pastRead /\ c.rawTasks = <<>>) =>
                    /\ atPurge
                    /\ c.hydrations = <<>>
                    /\ c.execs = <<>>
                    /\ c.removed = {}
                    /\ c.pc = "done" =>
                          /\ c.deletes =
                                <<[SourceClusterName |-> c.sourceCluster,
                                   ExclusiveBeginTaskID |->
                                       defaultBeginningMessageID,
                                   InclusiveEndTaskID |->
                                       defaultBeginningMessageID]>>
                          /\ c.err = NoError => c.outToken = c.token
              /\ atPurge =>
                    (c.lastMessageID = defaultBeginningMessageID
                         <=> c.rawTasks = <<>>)

C27_Witness ==
    \E p \in Procs :
        LET c == call[p]
        IN  /\ c.op = "Merge"
            /\ c.pc = "done"
            /\ c.err = NoError
            /\ Len(c.reads) = 1
            /\ c.rawTasks = <<>>
            /\ Len(c.deletes) = 1
            /\ dlq[c.sourceCluster] # {}
            /\ dlq = c.before

\* C28: a ReadMessages, PurgeMessages or MergeMessages call for source
\* cluster C touches C only: its store reads and range deletes name C,
\* only the executor of C is invoked, always with forced = true, and the
\* DLQ entries of every other source cluster are unchanged by the call.
C28_OnlySourceClusterTouched ==
    \A p \in Procs :
        LET c == call[p]
        IN  c.op # "none" =>
              /\ \A j \in 1..Len(c.reads) :
                    c.reads[j].SourceClusterName = c.sourceCluster
              /\ \A j \in 1..Len(c.deletes) :
                    c.deletes[j].SourceClusterName = c.sourceCluster
              /\ \A j \in 1..Len(c.execs) :
                    /\ c.execs[j].executor = c.sourceCluster
                    /\ c.execs[j].executor \in handler.taskExecutors
                    /\ c.execs[j].forced
              /\ \A other \in Clusters \ {c.sourceCluster} :
                    dlq[other] = c.before[other]

C28_Witness ==
    \E p \in Procs :
        LET c == call[p]
        IN  /\ c.op = "Merge"
            /\ c.sourceCluster = "west"
            /\ c.pc = "done"
            /\ c.err = NoError
            /\ 0 \in c.removed
            /\ c.execs # <<>>
            /\ dlq["east"] = {0}
            /\ handler.taskExecutors = {"west", "east"}

\* C29: PurgeMessages does not depend on cluster registration: for a
\* source cluster with no executor and no remote admin client it never
\* returns InvalidCluster, and when the store delete succeeds that
\* cluster's entries in (sentinel, upper bound] are gone.
C29_PurgeUnregisteredCluster ==
    \A p \in Procs :
        LET c == call[p]
        IN  (/\ c.op = "Purge"
             /\ c.sourceCluster \notin handler.taskExecutors
             /\ c.sourceCluster \notin remoteClients) =>
              /\ c.err # errInvalidCluster
              /\ c.pc \in {"delete", "done"}
              /\ c.pc = "done" =>
                    /\ Len(c.deletes) = 1
                    /\ c.err \in {NoError, errStoreDelete}
                    /\ c.err = NoError =>
                          /\ c.removed =
                                {t \in c.before[c.sourceCluster] :
                                    /\ t > defaultBeginningMessageID
                                    /\ t <= c.upper}
                          /\ dlq[c.sourceCluster] =
                                c.before[c.sourceCluster] \ c.removed

C29_Witness ==
    \E p \in Procs :
        LET c == call[p]
        IN  /\ c.op = "Purge"
            /\ c.sourceCluster \notin handler.taskExecutors
            /\ c.sourceCluster \notin remoteClients
            /\ c.pc = "done"
            /\ c.err = NoError
            /\ c.removed # {}

\* C30: outputs are never partial: when ReadMessages returns an error its
\* task list, entry list and page token are all absent, and MergeMessages
\* returns a page token only when its range delete succeeded; on every
\* error path, a failed delete after successful executions included, the
\* returned token is absent.
C30_NoPartialOutputs ==
    \A p \in Procs :
        LET c == call[p]
        IN  /\ (c.pc = "done" /\ c.err # NoError) =>
                  /\ c.outTasks = <<>>
                  /\ c.outTaskInfo = <<>>
                  /\ c.outToken = EmptyToken
            /\ (c.op = "Merge" /\ c.outToken # EmptyToken) =>
                  /\ c.pc = "done"
                  /\ c.err = NoError
                  /\ Len(c.deletes) = 1
                  /\ c.outToken = c.token
            /\ c.op = "Merge" => (c.outTasks = <<>> /\ c.outTaskInfo = <<>>)

C30_Witness ==
    \E p \in Procs :
        LET c == call[p]
        IN  /\ c.op = "Merge"
            /\ c.pc = "done"
            /\ c.err = errStoreDelete
            /\ c.token # EmptyToken
            /\ c.outToken = EmptyToken
            /\ Len(c.execs) >= 2
            /\ \A j \in 1..Len(c.execs) : c.execs[j].ok

\* C31: string truncation is total and bounded: for every string s and
\* every maxLength >= 1, trimString returns s unchanged when
\* len(s) < maxLength, and otherwise returns, without aborting, "..."
\* followed by the last maxLength characters of the final '/'-separated
\* segment of s, also when that segment is shorter than maxLength.
C31_TrimStringTotal ==
    (render.pc = "formatted" /\ render.tag.ok /\ render.tag.maxLength >= 1) =>
        LET s == render.str
            n == render.tag.maxLength
            items == Split(s)
            last == items[Len(items)]
            from == IF Len(last) > n THEN Len(last) - n + 1 ELSE 1
        IN  /\ ~render.out.panic
            /\ Len(s) < n => render.out.value = s
            /\ Len(s) >= n =>
                  render.out.value =
                      <<".", ".", ".">> \o SubSeq(last, from, Len(last))

====
